---- MODULE Spec2Model ----
(***************************************************************************)
(* Model of VideoTranscriptionPipeline.process_videos, in its two variants *)
(* (video_transcription_pipeline.py and video_transcription_GUI.py), with  *)
(* the fetch tasks of the thread pool, the transcription tasks of the      *)
(* process pool, the temporary workspace and the report generator.         *)
(***************************************************************************)
EXTENDS Integers, Sequences, FiniteSets, TLC

\* ---------------------------------------------------------------- bounds
MaxItems == 2      \* longest video_urls sequence explored
MaxWorkers == 2    \* largest pool size explored (max_workers of either pool)
MaxLen == 1        \* longest text the recognition engine returns
MaxCalls == 2      \* process_videos calls made on one instance
MaxLaterItems == 1 \* longest video_urls sequence of a call after the first

VARIABLES
    variant,        \* which class runs: "pipeline" or "gui"
    max_concurrent_downloads,
    max_concurrent_transcriptions,
    pc,             \* position of the thread that runs process_videos
    exc,            \* exception that unwinds out of process_videos
    video_urls,     \* argument of process_videos
    workspace,      \* tempfile.TemporaryDirectory: "none", "created", "released"
    files,          \* names of the files that exist in the workspace
    whisper_model,  \* self.whisper_model is set
    loads,          \* calls of whisper.load_model in the current run
    fetch,          \* per item: state of its download future
    tr,             \* per item: state of its transcription future
    engineOut,      \* per item: what whisper_model.transcribe did
    ret,            \* per item: the dict transcribe_audio returns
    broken,         \* the process pool is broken (a worker died)
    dlNext,         \* loop index of the submit loop / download loop
    preFinished,    \* as_completed: futures already finished at its start
    yielded,        \* as_completed: futures handed to the loop body
    results,        \* self.results
    errors,         \* self.errors
    pdfCalls,       \* calls of generate_pdf in the current run
    fetchDoneOrder, \* history: items in the order their fetch completed
    submitOrder,    \* history: items in the order transcribe tasks were submitted
    trDoneOrder,    \* history: items in the order their transcription completed
    calls,          \* process_videos calls made on this instance so far
    left_over       \* history: how the previous call ended and what it left
                    \* in self.results and self.errors

vars == <<variant, max_concurrent_downloads, max_concurrent_transcriptions,
          pc, exc, video_urls, workspace, files, whisper_model, loads,
          fetch, tr, engineOut, ret, broken, dlNext, preFinished, yielded,
          results, errors, pdfCalls, fetchDoneOrder, submitOrder, trDoneOrder,
          calls, left_over>>

\* ------------------------------------------------------------ input sets
\* An entry of video_urls: a str (its characters), or a non-str JSON value.
StrItem(s) == [isStr |-> TRUE, chars |-> s]
NonStrItem == [isStr |-> FALSE, chars |-> <<>>]
UrlA == StrItem(<<"x", "/", "a">>)
UrlB == StrItem(<<"y", "/", "a">>)
UrlC == StrItem(<<"b">>)
ItemUniverse == {UrlA, UrlB, UrlC, NonStrItem}

RECURSIVE SeqsUpTo(_, _)
SeqsUpTo(S, n) ==
    IF n = 0 THEN {<<>>}
    ELSE LET shorter == SeqsUpTo(S, n - 1)
         IN shorter \cup {Append(s, x) : s \in {t \in shorter : Len(t) = n - 1}, x \in S}

UrlLists == SeqsUpTo(ItemUniverse, MaxItems)
\* the lists a caller passes to a later call on the same instance
LaterUrlLists == SeqsUpTo(ItemUniverse, MaxLaterItems)
Chars == {" ", "a"}
Texts == SeqsUpTo(Chars, MaxLen)

\* What whisper_model.transcribe can do: raise, return a dict without "text",
\* or return a dict with a text.
EngineOutcomes ==
    {[kind |-> "raise", text |-> <<>>], [kind |-> "nokey", text |-> <<>>]}
    \cup {[kind |-> "text", text |-> t] : t \in Texts}
Unset == [kind |-> "unset", text |-> <<>>]
NoRet == [status |-> "none"]
NoCall == [outcome |-> "none", results |-> 0, errors |-> 0]

\* --------------------------------------------------------- pure helpers
SeqToSet(s) == {s[k] : k \in 1..Len(s)}

N == Len(video_urls)
Idx == 1..N

\* video_url.split('/')[-1] if '/' in video_url else video_url
VideoId(s) ==
    IF \E k \in 1..Len(s) : s[k] = "/"
    THEN LET last == CHOOSE k \in 1..Len(s) :
                        s[k] = "/" /\ \A j \in (k + 1)..Len(s) : s[j] # "/"
         IN SubSeq(s, last + 1, Len(s))
    ELSE s

\* os.path.join(self.temp_dir, f"{video_id}.wav"): the file name inside the
\* workspace is determined by video_id.
AudioFile(i) == VideoId(video_urls[i].chars)

\* the id yt-dlp itself derives for "%(id)s.%(ext)s" when it differs
OtherId == <<"o">>

\* str.strip()
RECURSIVE LStrip(_)
LStrip(s) == IF s # <<>> /\ Head(s) = " " THEN LStrip(Tail(s)) ELSE s
RECURSIVE RStrip(_)
RStrip(s) ==
    IF s # <<>> /\ s[Len(s)] = " " THEN RStrip(SubSeq(s, 1, Len(s) - 1)) ELSE s
Strip(s) == RStrip(LStrip(s))

NoSpeechText == <<"N", "o", " ", "s", "p", "e", "e", "c", "h">>

\* transcribe_audio without the .strip() of the text
TranscribeResultNoStrip(i, out) ==
    IF out.kind = "raise"
    THEN [item |-> i, url |-> video_urls[i], status |-> "error",
          error_message |-> "engine"]
    ELSE IF out.text # <<>>
         THEN [item |-> i, url |-> video_urls[i], status |-> "success",
               transcript |-> out.text]
         ELSE [item |-> i, url |-> video_urls[i], status |-> "empty",
               transcript |-> NoSpeechText]

\* the value transcribe_audio returns for item i, given what the engine did
TranscribeResult(i, out) ==
    IF out.kind = "raise"
    THEN [item |-> i, url |-> video_urls[i], status |-> "error",
          error_message |-> "engine"]
    ELSE LET transcript == Strip(out.text)
         IN IF transcript # <<>>
            THEN [item |-> i, url |-> video_urls[i], status |-> "success",
                  transcript |-> transcript]
            ELSE [item |-> i, url |-> video_urls[i], status |-> "empty",
                  transcript |-> NoSpeechText]

\* a directory made with mkdtemp and never removed
CleanupFilesKeep(fs) == fs
ExitTempDirLeak(ws) == ws

\* TemporaryDirectory.__exit__: the directory is removed with its content
CleanupFiles(fs) == {}
ExitTempDir(ws) == "released"

FetchFinished == {"ok", "none", "raised"}
TrFinished == {"done", "raised"}
TrUnfinished == {"queued", "running", "cleanup"}

\* a loop that polls the futures and takes any finished one
NextYieldAny(fs, finishedNow, doneOrder) == (fs \cap finishedNow) \ yielded

\* the futures as_completed hands out next: first those already finished when
\* it was called (in no particular order), then the others as they complete
NextYield(fs, finishedNow, doneOrder) ==
    IF (preFinished \cap fs) \ yielded # {}
    THEN (preFinished \cap fs) \ yielded
    ELSE LET rest == {k \in 1..Len(doneOrder) :
                         doneOrder[k] \in (fs \cap finishedNow) \ yielded}
         IN IF rest = {} THEN {}
            ELSE {doneOrder[CHOOSE k \in rest : \A j \in rest : k <= j]}

TranscribeFutures == {i \in Idx : tr[i] # "none"}

\* ------------------------------------------------------------------ Init
Init ==
    /\ variant \in {"pipeline", "gui"}
    /\ max_concurrent_downloads \in 1..MaxWorkers
    /\ max_concurrent_transcriptions \in 1..MaxWorkers
    /\ pc = "idle"
    /\ exc = "none"
    /\ video_urls = <<>>
    /\ workspace = "none"
    /\ files = {}
    /\ whisper_model = FALSE
    /\ loads = 0
    /\ fetch = <<>>
    /\ tr = <<>>
    /\ engineOut = <<>>
    /\ ret = <<>>
    /\ broken = FALSE
    /\ dlNext = 1
    /\ preFinished = {}
    /\ yielded = {}
    /\ results = <<>>
    /\ errors = <<>>
    /\ pdfCalls = 0
    /\ fetchDoneOrder = <<>>
    /\ submitOrder = <<>>
    /\ trDoneOrder = <<>>
    /\ calls = 0
    /\ left_over = NoCall

\* ------------------------------------------------- run_transcription.main
\* main() finds no URL in its input and returns 1 before it builds a pipeline
MainNoUrls ==
    /\ pc = "idle"
    /\ variant = "pipeline"
    /\ pc' = "main_rejected"
    /\ UNCHANGED <<calls, left_over,
                   variant, max_concurrent_downloads, max_concurrent_transcriptions,
                   exc, video_urls, workspace, files, whisper_model, loads,
                   fetch, tr, engineOut, ret, broken, dlNext, preFinished, yielded,
                   results, errors, pdfCalls, fetchDoneOrder, submitOrder, trDoneOrder>>

\* ------------------------------------------------------- process_videos
\* a process_videos that appends to the accumulators it finds
ProcessVideosEnterKeeps(urls) ==
    /\ \/ pc = "idle"
       \/ pc \in {"returned", "raised"} /\ calls < MaxCalls
    /\ calls' = calls + 1
    /\ left_over' = IF pc = "idle" THEN NoCall
                    ELSE [outcome |-> pc, results |-> Len(results),
                          errors |-> Len(errors)]
    /\ video_urls' = urls
    /\ workspace' = "created"
    /\ files' = {}
    /\ fetch' = [i \in 1..Len(urls) |-> "unsubmitted"]
    /\ tr' = [i \in 1..Len(urls) |-> "none"]
    /\ engineOut' = [i \in 1..Len(urls) |-> Unset]
    /\ ret' = [i \in 1..Len(urls) |-> NoRet]
    /\ exc' = "none"
    /\ loads' = 0
    /\ broken' = FALSE
    /\ dlNext' = 1
    /\ preFinished' = {}
    /\ yielded' = {}
    /\ pdfCalls' = 0
    /\ fetchDoneOrder' = <<>>
    /\ submitOrder' = <<>>
    /\ trDoneOrder' = <<>>
    /\ pc' = "initialize"
    /\ UNCHANGED <<variant, max_concurrent_downloads, max_concurrent_transcriptions,
                   whisper_model, results, errors>>

\* entry, on a new instance or on one whose earlier call has returned or
\* raised: clear the accumulators, create the temporary directory; the pools,
\* the futures and the loop variables of the call are new
ProcessVideosEnter(urls) ==
    /\ \/ pc = "idle"
       \/ pc \in {"returned", "raised"} /\ calls < MaxCalls
    /\ calls' = calls + 1
    /\ left_over' = IF pc = "idle" THEN NoCall
                    ELSE [outcome |-> pc, results |-> Len(results),
                          errors |-> Len(errors)]
    /\ video_urls' = urls
    /\ results' = <<>>
    /\ errors' = <<>>
    /\ workspace' = "created"
    /\ files' = {}
    /\ fetch' = [i \in 1..Len(urls) |-> "unsubmitted"]
    /\ tr' = [i \in 1..Len(urls) |-> "none"]
    /\ engineOut' = [i \in 1..Len(urls) |-> Unset]
    /\ ret' = [i \in 1..Len(urls) |-> NoRet]
    /\ exc' = "none"
    /\ loads' = 0
    /\ broken' = FALSE
    /\ dlNext' = 1
    /\ preFinished' = {}
    /\ yielded' = {}
    /\ pdfCalls' = 0
    /\ fetchDoneOrder' = <<>>
    /\ submitOrder' = <<>>
    /\ trDoneOrder' = <<>>
    /\ pc' = "initialize"
    /\ UNCHANGED <<variant, max_concurrent_downloads, max_concurrent_transcriptions,
                   whisper_model>>

\* self.initialize(): whisper.load_model returns
InitializeOk ==
    /\ pc = "initialize"
    /\ whisper_model' = TRUE
    /\ loads' = loads + 1
    /\ dlNext' = 1
    /\ pc' = "submit"
    /\ UNCHANGED <<calls, left_over,
                   variant, max_concurrent_downloads, max_concurrent_transcriptions,
                   exc, video_urls, workspace, files, fetch, tr, engineOut, ret,
                   broken, preFinished, yielded, results, errors, pdfCalls,
                   fetchDoneOrder, submitOrder, trDoneOrder>>

\* an initialize() that logs the failure of whisper.load_model and goes on
InitializeFailsSwallowed ==
    /\ pc = "initialize"
    /\ loads' = loads + 1
    /\ dlNext' = 1
    /\ pc' = "submit"
    /\ UNCHANGED <<calls, left_over,
                   variant, max_concurrent_downloads, max_concurrent_transcriptions,
                   exc, video_urls, workspace, files, whisper_model, fetch, tr,
                   engineOut, ret, broken, preFinished, yielded, results, errors,
                   pdfCalls, fetchDoneOrder, submitOrder, trDoneOrder>>

\* self.initialize(): whisper.load_model raises; the exception leaves the
\* with block of the temporary directory and process_videos
InitializeFails ==
    /\ pc = "initialize"
    /\ loads' = loads + 1
    /\ exc' = "ModelLoadError"
    /\ workspace' = ExitTempDir(workspace)
    /\ files' = CleanupFiles(files)
    /\ pc' = "raised"
    /\ UNCHANGED <<calls, left_over,
                   variant, max_concurrent_downloads, max_concurrent_transcriptions,
                   video_urls, whisper_model, fetch, tr, engineOut, ret, broken,
                   dlNext, preFinished, yielded, results, errors, pdfCalls,
                   fetchDoneOrder, submitOrder, trDoneOrder>>

\* download_executor.submit(self.download_and_extract_audio, url), one item
SubmitDownload ==
    /\ pc = "submit"
    /\ dlNext <= N
    /\ fetch' = [fetch EXCEPT ![dlNext] = "queued"]
    /\ dlNext' = dlNext + 1
    /\ UNCHANGED <<calls, left_over,
                   variant, max_concurrent_downloads, max_concurrent_transcriptions,
                   pc, exc, video_urls, workspace, files, whisper_model, loads,
                   tr, engineOut, ret, broken, preFinished, yielded, results,
                   errors, pdfCalls, fetchDoneOrder, submitOrder, trDoneOrder>>

\* every download is submitted: the transcription pool is created and the
\* download loop starts (the GUI variant calls as_completed here)
EnterDownloadLoop ==
    /\ pc = "submit"
    /\ dlNext > N
    /\ pc' = "dl_loop"
    /\ dlNext' = 1
    /\ preFinished' = {i \in Idx : fetch[i] \in FetchFinished}
    /\ yielded' = {}
    /\ UNCHANGED <<calls, left_over,
                   variant, max_concurrent_downloads, max_concurrent_transcriptions,
                   exc, video_urls, workspace, files, whisper_model, loads,
                   fetch, tr, engineOut, ret, broken, results, errors, pdfCalls,
                   fetchDoneOrder, submitOrder, trDoneOrder>>

\* ------------------------------------ download_and_extract_audio (a task)
FetchRunning == {i \in Idx : fetch[i] \in {"running", "check"}}
FetchQueued == {i \in Idx : fetch[i] = "queued"}

\* a download pool that starts a thread per task, without a limit
FetchStartUnbounded(i) ==
    /\ i \in FetchQueued
    /\ \A j \in FetchQueued : i <= j
    /\ IF video_urls[i].isStr
       THEN /\ fetch' = [fetch EXCEPT ![i] = "running"]
            /\ UNCHANGED fetchDoneOrder
       ELSE /\ fetch' = [fetch EXCEPT ![i] = "raised"]
            /\ fetchDoneOrder' = Append(fetchDoneOrder, i)
    /\ UNCHANGED <<calls, left_over,
                   variant, max_concurrent_downloads, max_concurrent_transcriptions,
                   pc, exc, video_urls, workspace, files, whisper_model, loads,
                   tr, engineOut, ret, broken, dlNext, preFinished, yielded,
                   results, errors, pdfCalls, submitOrder, trDoneOrder>>

\* a download pool that keeps one of its max_workers threads to itself
FetchStartOneWorkerLess(i) ==
    /\ i \in FetchQueued
    /\ \A j \in FetchQueued : i <= j
    /\ Cardinality(FetchRunning) < max_concurrent_downloads - 1
    /\ IF video_urls[i].isStr
       THEN /\ fetch' = [fetch EXCEPT ![i] = "running"]
            /\ UNCHANGED fetchDoneOrder
       ELSE /\ fetch' = [fetch EXCEPT ![i] = "raised"]
            /\ fetchDoneOrder' = Append(fetchDoneOrder, i)
    /\ UNCHANGED <<calls, left_over,
                   variant, max_concurrent_downloads, max_concurrent_transcriptions,
                   pc, exc, video_urls, workspace, files, whisper_model, loads,
                   tr, engineOut, ret, broken, dlNext, preFinished, yielded,
                   results, errors, pdfCalls, submitOrder, trDoneOrder>>

\* a worker thread of the download pool takes the oldest queued task and
\* computes video_id; a url that is no str has no split and the task raises
FetchStart(i) ==
    /\ i \in FetchQueued
    /\ \A j \in FetchQueued : i <= j
    /\ Cardinality(FetchRunning) < max_concurrent_downloads
    /\ IF video_urls[i].isStr
       THEN /\ fetch' = [fetch EXCEPT ![i] = "running"]
            /\ UNCHANGED fetchDoneOrder
       ELSE /\ fetch' = [fetch EXCEPT ![i] = "raised"]
            /\ fetchDoneOrder' = Append(fetchDoneOrder, i)
    /\ UNCHANGED <<calls, left_over,
                   variant, max_concurrent_downloads, max_concurrent_transcriptions,
                   pc, exc, video_urls, workspace, files, whisper_model, loads,
                   tr, engineOut, ret, broken, dlNext, preFinished, yielded,
                   results, errors, pdfCalls, submitOrder, trDoneOrder>>

\* subprocess.run raises CalledProcessError or another exception: return None
FetchToolFails(i) ==
    /\ i \in Idx
    /\ fetch[i] = "running"
    /\ fetch' = [fetch EXCEPT ![i] = "none"]
    /\ fetchDoneOrder' = Append(fetchDoneOrder, i)
    /\ UNCHANGED <<calls, left_over,
                   variant, max_concurrent_downloads, max_concurrent_transcriptions,
                   pc, exc, video_urls, workspace, files, whisper_model, loads,
                   tr, engineOut, ret, broken, dlNext, preFinished, yielded,
                   results, errors, pdfCalls, submitOrder, trDoneOrder>>

\* the files yt-dlp may leave when it exits normally: the pipeline variant
\* passes audio_file as --output, the GUI variant passes "%(id)s.%(ext)s"
ToolOutputs(i) ==
    IF variant = "pipeline"
    THEN {{AudioFile(i)}, {}}
    ELSE {{AudioFile(i)}, {OtherId}}

\* subprocess.run returns normally
FetchToolOk(i, written) ==
    /\ i \in Idx
    /\ fetch[i] = "running"
    /\ written \in ToolOutputs(i)
    /\ files' = files \cup written
    /\ fetch' = [fetch EXCEPT ![i] = "check"]
    /\ UNCHANGED <<calls, left_over,
                   variant, max_concurrent_downloads, max_concurrent_transcriptions,
                   pc, exc, video_urls, workspace, whisper_model, loads,
                   tr, engineOut, ret, broken, dlNext, preFinished, yielded,
                   results, errors, pdfCalls, fetchDoneOrder, submitOrder,
                   trDoneOrder>>

\* os.path.exists(audio_file): return audio_file, else None
FetchCheck(i) ==
    /\ i \in Idx
    /\ fetch[i] = "check"
    /\ fetch' = [fetch EXCEPT ![i] = IF AudioFile(i) \in files THEN "ok" ELSE "none"]
    /\ fetchDoneOrder' = Append(fetchDoneOrder, i)
    /\ UNCHANGED <<calls, left_over,
                   variant, max_concurrent_downloads, max_concurrent_transcriptions,
                   pc, exc, video_urls, workspace, files, whisper_model, loads,
                   tr, engineOut, ret, broken, dlNext, preFinished, yielded,
                   results, errors, pdfCalls, submitOrder, trDoneOrder>>

\* ------------------------------------------- process_videos: download loop
ErrorEntry(i, msg) == [item |-> i, url |-> video_urls[i], error_message |-> msg]

\* a loop body that forgets the download that returned None
RecordDownloadFailureDropped(errs, i) == errs

\* self.errors.append for a download that returned None (pipeline variant)
RecordDownloadFailure(errs, i) ==
    Append(errs, ErrorEntry(i, "Failed to download or extract audio"))

\* a loop body that submits the transcription whatever the download returned
PipelineBodySubmitsAlways(i) ==
    IF fetch[i] \in {"ok", "none"}
    THEN IF broken
         THEN /\ errors' = Append(errors, ErrorEntry(i, "Download processing error"))
              /\ UNCHANGED <<tr, submitOrder>>
         ELSE /\ tr' = [tr EXCEPT ![i] = "queued"]
              /\ submitOrder' = Append(submitOrder, i)
              /\ UNCHANGED errors
    ELSE /\ errors' = Append(errors, ErrorEntry(i, "Download processing error"))
         /\ UNCHANGED <<tr, submitOrder>>

\* the effect of the loop body on one finished download future, pipeline
\* variant: submit the transcription, or append to self.errors
PipelineBody(i) ==
    IF fetch[i] = "ok"
    THEN IF broken
         THEN /\ errors' = Append(errors, ErrorEntry(i, "Download processing error"))
              /\ UNCHANGED <<tr, submitOrder>>
         ELSE /\ tr' = [tr EXCEPT ![i] = "queued"]
              /\ submitOrder' = Append(submitOrder, i)
              /\ UNCHANGED errors
    ELSE IF fetch[i] = "none"
         THEN /\ errors' = RecordDownloadFailure(errors, i)
              /\ UNCHANGED <<tr, submitOrder>>
         ELSE /\ errors' = Append(errors, ErrorEntry(i, "Download processing error"))
              /\ UNCHANGED <<tr, submitOrder>>

\* a download loop behind a barrier: it waits for every download before it
\* handles the first one
PipelineHandleDownloadBarrier ==
    /\ pc = "dl_loop"
    /\ variant = "pipeline"
    /\ dlNext <= N
    /\ \A j \in Idx : fetch[j] \in FetchFinished
    /\ PipelineBody(dlNext)
    /\ dlNext' = dlNext + 1
    /\ UNCHANGED <<calls, left_over,
                   variant, max_concurrent_downloads, max_concurrent_transcriptions,
                   pc, exc, video_urls, workspace, files, whisper_model, loads,
                   fetch, engineOut, ret, broken, preFinished, yielded,
                   results, pdfCalls, fetchDoneOrder, trDoneOrder>>

\* for future, url in download_futures: future.result() blocks until the
\* download of the next item in submission order has finished
PipelineHandleDownload ==
    /\ pc = "dl_loop"
    /\ variant = "pipeline"
    /\ dlNext <= N
    /\ fetch[dlNext] \in FetchFinished
    /\ PipelineBody(dlNext)
    /\ dlNext' = dlNext + 1
    /\ UNCHANGED <<calls, left_over,
                   variant, max_concurrent_downloads, max_concurrent_transcriptions,
                   pc, exc, video_urls, workspace, files, whisper_model, loads,
                   fetch, engineOut, ret, broken, preFinished, yielded,
                   results, pdfCalls, fetchDoneOrder, trDoneOrder>>

\* the effect of the loop body on one finished download future, GUI variant:
\* a download that returned None is not recorded anywhere
GuiBody(i) ==
    IF fetch[i] = "ok"
    THEN IF broken
         THEN /\ errors' = Append(errors, ErrorEntry(i, "str(e)"))
              /\ UNCHANGED <<tr, submitOrder>>
         ELSE /\ tr' = [tr EXCEPT ![i] = "queued"]
              /\ submitOrder' = Append(submitOrder, i)
              /\ UNCHANGED errors
    ELSE IF fetch[i] = "none"
         THEN UNCHANGED <<errors, tr, submitOrder>>
         ELSE /\ errors' = Append(errors, ErrorEntry(i, "str(e)"))
              /\ UNCHANGED <<tr, submitOrder>>

\* for future in as_completed(download_futures)
GuiHandleDownload(i) ==
    /\ pc = "dl_loop"
    /\ variant = "gui"
    /\ i \in NextYield(Idx, {j \in Idx : fetch[j] \in FetchFinished}, fetchDoneOrder)
    /\ GuiBody(i)
    /\ yielded' = yielded \cup {i}
    /\ UNCHANGED <<calls, left_over,
                   variant, max_concurrent_downloads, max_concurrent_transcriptions,
                   pc, exc, video_urls, workspace, files, whisper_model, loads,
                   fetch, engineOut, ret, broken, dlNext, preFinished,
                   results, pdfCalls, fetchDoneOrder, trDoneOrder>>

\* the download loop is exhausted: as_completed(transcribe_futures) starts
EnterCollect ==
    /\ pc = "dl_loop"
    /\ IF variant = "pipeline" THEN dlNext > N ELSE yielded = Idx
    /\ pc' = "collect"
    /\ preFinished' = {i \in Idx : tr[i] \in TrFinished}
    /\ yielded' = {}
    /\ UNCHANGED <<calls, left_over,
                   variant, max_concurrent_downloads, max_concurrent_transcriptions,
                   exc, video_urls, workspace, files, whisper_model, loads,
                   fetch, tr, engineOut, ret, broken, dlNext, results, errors,
                   pdfCalls, fetchDoneOrder, submitOrder, trDoneOrder>>

\* ------------------------------------------------ transcribe_audio (a task)
TrRunning == {i \in Idx : tr[i] \in {"running", "cleanup"}}

\* a worker process takes the oldest queued call
TranscribeStart(i) ==
    /\ i \in Idx
    /\ tr[i] = "queued"
    /\ \A k \in 1..Len(submitOrder) :
          tr[submitOrder[k]] = "queued" =>
              \E m \in 1..k : submitOrder[m] = i
    /\ Cardinality(TrRunning) < max_concurrent_transcriptions
    /\ tr' = [tr EXCEPT ![i] = "running"]
    /\ UNCHANGED <<calls, left_over,
                   variant, max_concurrent_downloads, max_concurrent_transcriptions,
                   pc, exc, video_urls, workspace, files, whisper_model, loads,
                   fetch, engineOut, ret, broken, dlNext, preFinished, yielded,
                   results, errors, pdfCalls, fetchDoneOrder, submitOrder,
                   trDoneOrder>>

\* self.whisper_model.transcribe(audio_file) and the classification of what
\* it did; the engine cannot read a file that is not there
TranscribeEngine(i, out) ==
    /\ i \in Idx
    /\ tr[i] = "running"
    /\ out \in EngineOutcomes
    /\ AudioFile(i) \notin files => out.kind = "raise"
    /\ engineOut' = [engineOut EXCEPT ![i] = out]
    /\ ret' = [ret EXCEPT ![i] = TranscribeResult(i, out)]
    /\ tr' = [tr EXCEPT ![i] = "cleanup"]
    /\ UNCHANGED <<calls, left_over,
                   variant, max_concurrent_downloads, max_concurrent_transcriptions,
                   pc, exc, video_urls, workspace, files, whisper_model, loads,
                   fetch, broken, dlNext, preFinished, yielded, results, errors,
                   pdfCalls, fetchDoneOrder, submitOrder, trDoneOrder>>

\* a finally block without the inner try: a failure of os.remove leaves
\* transcribe_audio as an exception and the future raises
TranscribeCleanupRaises(i, removed) ==
    /\ i \in Idx
    /\ tr[i] = "cleanup"
    /\ removed \in BOOLEAN
    /\ AudioFile(i) \notin files => removed = FALSE
    /\ files' = IF removed THEN files \ {AudioFile(i)} ELSE files
    /\ tr' = [tr EXCEPT ![i] = IF AudioFile(i) \in files /\ ~removed
                                THEN "raised" ELSE "done"]
    /\ trDoneOrder' = Append(trDoneOrder, i)
    /\ UNCHANGED <<calls, left_over,
                   variant, max_concurrent_downloads, max_concurrent_transcriptions,
                   pc, exc, video_urls, workspace, whisper_model, loads,
                   fetch, engineOut, ret, broken, dlNext, preFinished, yielded,
                   results, errors, pdfCalls, fetchDoneOrder, submitOrder>>

\* finally: os.remove(audio_file) if it exists; a failure of the removal is
\* logged and the file stays
TranscribeCleanup(i, removed) ==
    /\ i \in Idx
    /\ tr[i] = "cleanup"
    /\ removed \in BOOLEAN
    /\ AudioFile(i) \notin files => removed = FALSE
    /\ files' = IF removed THEN files \ {AudioFile(i)} ELSE files
    /\ tr' = [tr EXCEPT ![i] = "done"]
    /\ trDoneOrder' = Append(trDoneOrder, i)
    /\ UNCHANGED <<calls, left_over,
                   variant, max_concurrent_downloads, max_concurrent_transcriptions,
                   pc, exc, video_urls, workspace, whisper_model, loads,
                   fetch, engineOut, ret, broken, dlNext, preFinished, yielded,
                   results, errors, pdfCalls, fetchDoneOrder, submitOrder>>

\* the unfinished transcription futures, oldest submission first
UnfinishedInOrder == SelectSeq(submitOrder, LAMBDA i : tr[i] \in TrUnfinished)

\* a worker process dies while it runs a call: the pool is broken, every
\* unfinished future raises BrokenProcessPool and so does every later submit
WorkerDies ==
    /\ TrRunning # {}
    /\ broken' = TRUE
    /\ tr' = [i \in Idx |-> IF tr[i] \in TrUnfinished THEN "raised" ELSE tr[i]]
    /\ trDoneOrder' = trDoneOrder \o UnfinishedInOrder
    /\ UNCHANGED <<calls, left_over,
                   variant, max_concurrent_downloads, max_concurrent_transcriptions,
                   pc, exc, video_urls, workspace, files, whisper_model, loads,
                   fetch, engineOut, ret, dlNext, preFinished, yielded,
                   results, errors, pdfCalls, fetchDoneOrder, submitOrder>>

\* --------------------------------------- process_videos: collection loop
\* the effect of the loop body on a transcription future that returned,
\* pipeline variant: a record with status error is appended to self.errors
\* too, every record is appended to self.results
PipelineCollectErrors(errs, r) ==
    IF r.status = "error"
    THEN Append(errs, [item |-> r.item, url |-> r.url,
                       error_message |-> r.error_message])
    ELSE errs

\* for future in as_completed(transcribe_futures), pipeline variant: an
\* exception of future.result() is logged and nothing is recorded
PipelineCollect(i) ==
    /\ pc = "collect"
    /\ variant = "pipeline"
    /\ i \in NextYield(TranscribeFutures, {j \in Idx : tr[j] \in TrFinished},
                       trDoneOrder)
    /\ yielded' = yielded \cup {i}
    /\ IF tr[i] = "done"
       THEN /\ errors' = PipelineCollectErrors(errors, ret[i])
            /\ results' = Append(results, ret[i])
       ELSE UNCHANGED <<errors, results>>
    /\ UNCHANGED <<calls, left_over,
                   variant, max_concurrent_downloads, max_concurrent_transcriptions,
                   pc, exc, video_urls, workspace, files, whisper_model, loads,
                   fetch, tr, engineOut, ret, broken, dlNext, preFinished,
                   pdfCalls, fetchDoneOrder, submitOrder, trDoneOrder>>

\* for future in as_completed(transcribe_futures), GUI variant:
\* self.results.append(future.result()); an exception of future.result()
\* leaves the loop
GuiCollect(i) ==
    /\ pc = "collect"
    /\ variant = "gui"
    /\ i \in NextYield(TranscribeFutures, {j \in Idx : tr[j] \in TrFinished},
                       trDoneOrder)
    /\ yielded' = yielded \cup {i}
    /\ IF tr[i] = "done"
       THEN /\ results' = Append(results, ret[i])
            /\ UNCHANGED <<pc, exc>>
       ELSE /\ pc' = "unwind"
            /\ exc' = "TranscriptionTaskError"
            /\ UNCHANGED results
    /\ UNCHANGED <<calls, left_over,
                   variant, max_concurrent_downloads, max_concurrent_transcriptions,
                   video_urls, workspace, files, whisper_model, loads,
                   fetch, tr, engineOut, ret, broken, dlNext, preFinished,
                   errors, pdfCalls, fetchDoneOrder, submitOrder, trDoneOrder>>

\* the exception leaves both executors' with blocks (shutdown waits for
\* every task), then the temporary directory's, then process_videos
GuiUnwind ==
    /\ pc = "unwind"
    /\ \A i \in Idx : tr[i] \notin TrUnfinished
    /\ workspace' = ExitTempDir(workspace)
    /\ files' = CleanupFiles(files)
    /\ pc' = "raised"
    /\ UNCHANGED <<calls, left_over,
                   variant, max_concurrent_downloads, max_concurrent_transcriptions,
                   exc, video_urls, whisper_model, loads, fetch, tr, engineOut,
                   ret, broken, dlNext, preFinished, yielded, results, errors,
                   pdfCalls, fetchDoneOrder, submitOrder, trDoneOrder>>

\* pools shut down without waiting (shutdown(wait=False)) and a collection
\* loop that is left early
CollectDoneEarly ==
    /\ pc = "collect"
    /\ pc' = "generate_pdf"
    /\ UNCHANGED <<calls, left_over,
                   variant, max_concurrent_downloads, max_concurrent_transcriptions,
                   exc, video_urls, workspace, files, whisper_model, loads,
                   fetch, tr, engineOut, ret, broken, dlNext, preFinished, yielded,
                   results, errors, pdfCalls, fetchDoneOrder, submitOrder,
                   trDoneOrder>>

\* every transcription future was handed out: both pools shut down
CollectDone ==
    /\ pc = "collect"
    /\ yielded = TranscribeFutures
    /\ pc' = "generate_pdf"
    /\ UNCHANGED <<calls, left_over,
                   variant, max_concurrent_downloads, max_concurrent_transcriptions,
                   exc, video_urls, workspace, files, whisper_model, loads,
                   fetch, tr, engineOut, ret, broken, dlNext, preFinished, yielded,
                   results, errors, pdfCalls, fetchDoneOrder, submitOrder,
                   trDoneOrder>>

\* self.generate_pdf(output_pdf) builds the document; the with block of the
\* temporary directory ends and process_videos returns its summary
GeneratePdfOk ==
    /\ pc = "generate_pdf"
    /\ pdfCalls' = pdfCalls + 1
    /\ workspace' = ExitTempDir(workspace)
    /\ files' = CleanupFiles(files)
    /\ pc' = "returned"
    /\ UNCHANGED <<calls, left_over,
                   variant, max_concurrent_downloads, max_concurrent_transcriptions,
                   exc, video_urls, whisper_model, loads, fetch, tr, engineOut,
                   ret, broken, dlNext, preFinished, yielded, results, errors,
                   fetchDoneOrder, submitOrder, trDoneOrder>>

\* a process_videos that catches the failure of generate_pdf inside the with
\* block and goes on to return its summary
GeneratePdfFailsFallsThrough ==
    /\ pc = "generate_pdf"
    /\ pdfCalls' = pdfCalls + 1
    /\ exc' = "ReportGenerationError"
    /\ workspace' = ExitTempDir(workspace)
    /\ files' = CleanupFiles(files)
    /\ pc' = "returned"
    /\ UNCHANGED <<calls, left_over,
                   variant, max_concurrent_downloads, max_concurrent_transcriptions,
                   video_urls, whisper_model, loads, fetch, tr, engineOut,
                   ret, broken, dlNext, preFinished, yielded, results, errors,
                   fetchDoneOrder, submitOrder, trDoneOrder>>

\* doc.build raises: the exception leaves the with block and process_videos
GeneratePdfFails ==
    /\ pc = "generate_pdf"
    /\ pdfCalls' = pdfCalls + 1
    /\ exc' = "ReportGenerationError"
    /\ workspace' = ExitTempDir(workspace)
    /\ files' = CleanupFiles(files)
    /\ pc' = "raised"
    /\ UNCHANGED <<calls, left_over,
                   variant, max_concurrent_downloads, max_concurrent_transcriptions,
                   video_urls, whisper_model, loads, fetch, tr, engineOut,
                   ret, broken, dlNext, preFinished, yielded, results, errors,
                   fetchDoneOrder, submitOrder, trDoneOrder>>

\* the dict process_videos returns
Summary == [success_count |-> Len(results), error_count |-> Len(errors)]

\* ------------------------------------------------------------------ Next
Next ==
    \/ MainNoUrls
    \/ \E urls \in (IF calls = 0 THEN UrlLists ELSE LaterUrlLists) :
           ProcessVideosEnter(urls)
    \/ InitializeOk
    \/ InitializeFails
    \/ SubmitDownload
    \/ EnterDownloadLoop
    \/ \E i \in Idx : FetchStart(i)
    \/ \E i \in Idx : FetchToolFails(i)
    \/ \E i \in Idx : \E written \in ToolOutputs(i) : FetchToolOk(i, written)
    \/ \E i \in Idx : FetchCheck(i)
    \/ PipelineHandleDownload
    \/ \E i \in Idx : GuiHandleDownload(i)
    \/ EnterCollect
    \/ \E i \in Idx : TranscribeStart(i)
    \/ \E i \in Idx : \E out \in EngineOutcomes : TranscribeEngine(i, out)
    \/ \E i \in Idx : \E removed \in BOOLEAN : TranscribeCleanup(i, removed)
    \/ WorkerDies
    \/ \E i \in Idx : PipelineCollect(i)
    \/ \E i \in Idx : GuiCollect(i)
    \/ GuiUnwind
    \/ CollectDone
    \/ GeneratePdfOk
    \/ GeneratePdfFails

Spec == Init /\ [][Next]_vars

\* the steps of a call that is under way: the statements of process_videos,
\* the tasks the pool workers run, and the returns of the external calls.
\* Not among them: the caller's next call and the death of a worker process.
RunStep ==
    \/ InitializeOk
    \/ InitializeFails
    \/ SubmitDownload
    \/ EnterDownloadLoop
    \/ \E i \in Idx : FetchStart(i)
    \/ \E i \in Idx : FetchToolFails(i)
    \/ \E i \in Idx : \E written \in ToolOutputs(i) : FetchToolOk(i, written)
    \/ \E i \in Idx : FetchCheck(i)
    \/ PipelineHandleDownload
    \/ \E i \in Idx : GuiHandleDownload(i)
    \/ EnterCollect
    \/ \E i \in Idx : TranscribeStart(i)
    \/ \E i \in Idx : \E out \in EngineOutcomes : TranscribeEngine(i, out)
    \/ \E i \in Idx : \E removed \in BOOLEAN : TranscribeCleanup(i, removed)
    \/ \E i \in Idx : PipelineCollect(i)
    \/ \E i \in Idx : GuiCollect(i)
    \/ GuiUnwind
    \/ CollectDone
    \/ GeneratePdfOk
    \/ GeneratePdfFails

\* fair scheduling, and external calls that return or fail in finite time:
\* while some step of the call can be taken, one is taken
LiveSpec == Init /\ [][Next]_vars /\ WF_vars(RunStep)

TypeOK ==
    /\ pc \in {"idle", "main_rejected", "initialize", "submit", "dl_loop",
               "collect", "unwind", "generate_pdf", "returned", "raised"}
    /\ workspace \in {"none", "created", "released"}

\* ---------------------------------------------------------------- claims
InResults(i) == \E k \in 1..Len(results) : results[k].item = i
InErrors(i) == \E k \in 1..Len(errors) : errors[k].item = i
FetchFailed(i) == fetch[i] \in {"none", "raised"}
ErrorRecords == {k \in 1..Len(results) : results[k].status = "error"}
Finished == pc \in {"returned", "raised"}
\* position of item i in a history sequence (0 when absent)
Pos(s, i) == IF \E k \in 1..Len(s) : s[k] = i
             THEN CHOOSE k \in 1..Len(s) : s[k] = i ELSE 0

\* the download loop of the pipeline variant is past item i
DownloadHandled(i) ==
    \/ pc = "dl_loop" /\ dlNext > i
    \/ pc \in {"collect", "generate_pdf", "returned", "raised"}
\* the engine returned a text with a character that is not blank
HasSpeech(out) ==
    out.kind = "text" /\ \E k \in 1..Len(out.text) : out.text[k] # " "
\* the collection loop has taken the returned outcome of item i
Collected(i) ==
    /\ pc \in {"collect", "unwind", "generate_pdf", "returned", "raised"}
    /\ i \in yielded
    /\ tr[i] = "done"

\* C1: when process_videos returns, the number of entries of self.results plus
\* the number of entries of self.errors equals the number of submitted items.
C1_NoLossNoDuplication ==
    pc = "returned" => Len(results) + Len(errors) = N

\* C2: in the pipeline variant no item is recorded both in self.results and in
\* self.errors, and self.errors holds only items whose fetch did not succeed.
C2_ResultsErrorsDisjoint ==
    variant = "pipeline" =>
        \A i \in Idx : /\ ~(InResults(i) /\ InErrors(i))
                       /\ InErrors(i) => FetchFailed(i)

\* C3: in the pipeline variant an item whose fetch returned no artifact or
\* raised gets no transcription task, never appears in self.results, and has
\* exactly one entry in self.errors once the download loop has handled it.
C3_FetchFailureRecorded ==
    variant = "pipeline" =>
        \A i \in Idx :
            FetchFailed(i) =>
                /\ tr[i] = "none"
                /\ i \notin SeqToSet(submitOrder)
                /\ ~InResults(i)
                /\ DownloadHandled(i) =>
                       Cardinality({k \in 1..Len(errors) : errors[k].item = i}) = 1
C3_Witness ==
    /\ variant = "pipeline"
    /\ pc = "returned"
    /\ \E i, j \in Idx : /\ fetch[i] = "none" /\ InErrors(i)
                         /\ fetch[j] = "ok" /\ InResults(j)

\* C4: the returned summary has success_count equal to the number of records
\* and error_count equal to the number of items whose fetch failed plus the
\* number of records with status error.
C4_SummaryCounts ==
    pc = "returned" =>
        /\ Summary.success_count = Len(results)
        /\ Summary.error_count =
               Cardinality({i \in Idx : FetchFailed(i)}) + Cardinality(ErrorRecords)

\* C5: transcribe_audio returns status success exactly when the engine
\* returned a text with a non-blank character, status empty exactly when the
\* engine returned without such a text, status error exactly when the engine
\* raised; a returned outcome with status empty that the collection loop has
\* taken is one record of self.results and no entry of self.errors.
C5_ThreeWayClassification ==
    \A i \in Idx :
        engineOut[i] # Unset =>
            /\ ret[i].status \in {"success", "empty", "error"}
            /\ ret[i].status = "success" <=> HasSpeech(engineOut[i])
            /\ ret[i].status = "empty" <=>
                   (engineOut[i].kind # "raise" /\ ~HasSpeech(engineOut[i]))
            /\ ret[i].status = "error" <=> engineOut[i].kind = "raise"
            /\ (ret[i].status = "empty" /\ Collected(i)) =>
                   /\ Cardinality({k \in 1..Len(results) :
                                      results[k].item = i}) = 1
                   /\ \A k \in 1..Len(results) :
                          results[k].item = i => results[k].status = "empty"
                   /\ ~InErrors(i)
C5_Witness ==
    /\ pc = "returned"
    /\ \E i \in Idx : /\ engineOut[i] = [kind |-> "text", text |-> <<" ">>]
                      /\ ret[i].status = "empty"
                      /\ InResults(i)
                      /\ Len(errors) = 0

\* C6: when process_videos has returned or raised, no file is left in the
\* workspace, whatever happened to the transcription of each artifact.
C6_ArtifactsDeleted ==
    Finished => files = {}
C6_Witness ==
    /\ pc = "returned"
    /\ \E i, j \in Idx : /\ fetch[i] = "ok" /\ tr[i] = "raised"
                         /\ fetch[j] = "ok" /\ tr[j] = "done"

\* C7: when process_videos has returned or raised, the temporary directory it
\* created has been released.
C7_WorkspaceReleased ==
    /\ Finished => workspace = "released"
    /\ workspace = "created" =>
           pc \in {"initialize", "submit", "dl_loop", "collect", "unwind",
                   "generate_pdf"}
C7_Witness ==
    /\ pc = "raised"
    /\ exc = "ReportGenerationError"
    /\ workspace = "released"
    /\ Len(errors) > 0

\* C8: the engine is loaded once per run and before any task is submitted; when
\* the load fails process_videos raises with no fetch task, no transcription
\* task, no report and a released workspace.
C8_LoadOnceBeforeTasks ==
    /\ loads <= 1
    /\ (\E i \in Idx : fetch[i] # "unsubmitted" \/ tr[i] # "none") =>
           (whisper_model /\ loads = 1)
    /\ Finished => loads = 1
    /\ exc = "ModelLoadError" =>
           /\ pc = "raised"
           /\ \A i \in Idx : fetch[i] = "unsubmitted" /\ tr[i] = "none"
           /\ pdfCalls = 0
           /\ workspace = "released"
    /\ (pc \in {"submit", "dl_loop", "collect", "generate_pdf", "returned"}) =>
           whisper_model
C8_Witness ==
    /\ exc = "ModelLoadError"
    /\ pc = "raised"
    /\ N = MaxItems

\* C9: process_videos rejects an empty item sequence before it creates the
\* workspace, loads the engine, starts a pool or generates a report.
C9_EmptyRejected ==
    (pc # "idle" /\ video_urls = <<>>) =>
        /\ pc = "main_rejected"
        /\ workspace = "none"
        /\ loads = 0
        /\ pdfCalls = 0

\* C10: in the pipeline variant transcription tasks are submitted in the order
\* in which the fetch tasks completed.
C10_SubmitInFetchCompletionOrder ==
    variant = "pipeline" =>
        \A a, b \in 1..Len(submitOrder) :
            a < b => Pos(fetchDoneOrder, submitOrder[a])
                         < Pos(fetchDoneOrder, submitOrder[b])

\* C11: there is no barrier between the stages: the download loop hands a
\* finished download on whatever the state of the downloads it has not reached
\* yet, and a queued transcription starts as soon as a worker is free, so a
\* transcription can run while a fetch of the same run is unfinished.
C11_NoBarrierBetweenStages ==
    /\ (variant = "pipeline" /\ pc = "dl_loop" /\ dlNext <= N
            /\ fetch[dlNext] \in FetchFinished)
           => ENABLED PipelineHandleDownload
    /\ (variant = "gui" /\ pc = "dl_loop"
            /\ \E i \in Idx \ yielded : fetch[i] \in FetchFinished)
           => ENABLED (\E i \in Idx : GuiHandleDownload(i))
    /\ ((\E i \in Idx : tr[i] = "queued")
            /\ Cardinality(TrRunning) < max_concurrent_transcriptions)
           => ENABLED (\E i \in Idx : TranscribeStart(i))
C11_Witness ==
    /\ variant = "pipeline"
    /\ N >= 2
    /\ \E i, j \in Idx : /\ tr[i] = "running"
                         /\ fetch[j] \in {"queued", "running", "check"}

\* every fetch task and every transcription task of the run has completed
Drained ==
    \A i \in Idx : /\ fetch[i] \in FetchFinished
                   /\ tr[i] \in {"none"} \cup TrFinished

\* C12: generate_pdf is invoked at most once per run and only when both stages
\* have drained: when it is invoked every fetch task and every transcription
\* task has completed, and from then on self.results and self.errors do not
\* change during the run.
C12_ReportAfterDrain ==
    [][/\ pdfCalls' <= 1
       /\ pdfCalls' > pdfCalls => (pc = "generate_pdf" /\ Drained)
       /\ pc' = "generate_pdf" => Drained'
       /\ ((pc = "generate_pdf" \/ pdfCalls >= 1) /\ pc' # "initialize") =>
              /\ results' = results
              /\ errors' = errors
              /\ fetch' = fetch
              /\ tr' = tr]_vars
C12_Witness ==
    /\ pc = "returned"
    /\ pdfCalls = 1
    /\ N = 2
    /\ Len(results) = 1
    /\ Len(errors) = 1
    /\ \E i \in Idx : tr[i] = "done" /\ ret[i].status = "success"

\* C13: no failure of a single item makes process_videos raise: the only
\* exceptions that leave process_videos are the failure of the model load and
\* the failure of the report generation.
C13_OnlyFatalErrorsPropagate ==
    /\ exc \in {"none", "ModelLoadError", "ReportGenerationError"}
    /\ pc \notin {"unwind"}

\* C14: when the fetch of every one of the N >= 1 submitted items fails, the
\* run ends with self.results empty and N entries in self.errors, and
\* generate_pdf has been invoked once.
C14_AllFetchesFail ==
    (pc = "returned" /\ N >= 1 /\ \A i \in Idx : FetchFailed(i)) =>
        /\ results = <<>>
        /\ Len(errors) = N
        /\ \A i \in Idx : InErrors(i)
        /\ pdfCalls = 1

\* the fetch task of item i has computed its audio_file
PathComputed(i) == fetch[i] \in {"running", "check", "ok", "none"}

\* C15: within one run no two tasks use the same artifact path, whatever the
\* input sequence (duplicates and URLs with the same last segment included).
C15_DistinctArtifactPaths ==
    \A i, j \in Idx :
        (i # j /\ PathComputed(i) /\ PathComputed(j)) =>
            AudioFile(i) # AudioFile(j)

\* C16: at most max_concurrent_downloads fetch tasks and at most
\* max_concurrent_transcriptions transcription tasks execute at a time, each
\* pool counting only its own tasks, and every item has exactly one fetch
\* task: submitted in the submit loop, in order, and never again.
C16_PoolBounds ==
    /\ Cardinality(FetchRunning) <= max_concurrent_downloads
    /\ Cardinality(TrRunning) <= max_concurrent_transcriptions
    /\ pc = "submit" => \A i \in Idx : fetch[i] # "unsubmitted" <=> i < dlNext
    /\ pc \in {"dl_loop", "collect", "unwind", "generate_pdf", "returned"} =>
           \A i \in Idx : fetch[i] # "unsubmitted"
    /\ Len(fetchDoneOrder) = Cardinality(SeqToSet(fetchDoneOrder))
    /\ \A i \in Idx : fetch[i] \in FetchFinished <=> i \in SeqToSet(fetchDoneOrder)
C16_Witness ==
    /\ N = 2
    /\ max_concurrent_downloads = 1
    /\ max_concurrent_transcriptions = 1
    /\ Cardinality(FetchRunning) = 1
    /\ Cardinality(TrRunning) = 1

\* C17: when the report generation fails process_videos returns no summary:
\* it raises, with the workspace released and every task of the run completed;
\* a run that returns a summary has had no failure of the report generation.
C17_ReportFailurePropagates ==
    /\ exc = "ReportGenerationError" =>
           /\ pc = "raised"
           /\ workspace = "released"
           /\ files = {}
           /\ pdfCalls = 1
           /\ Drained
           /\ yielded = TranscribeFutures
    /\ pc = "returned" => (exc = "none" /\ pdfCalls = 1)
C17_Witness ==
    /\ exc = "ReportGenerationError"
    /\ pc = "raised"
    /\ \E i, j \in Idx : fetch[i] = "ok" /\ tr[i] = "done" /\ FetchFailed(j)

\* C18: self.results is in transcription-completion order: a record precedes
\* another one exactly when its transcription task completed first.
C18_RecordsInCompletionOrder ==
    \A k, l \in 1..Len(results) :
        k < l => Pos(trDoneOrder, results[k].item) < Pos(trDoneOrder, results[l].item)

\* C18 as amended: the records of the tasks that had already completed when
\* the collection loop started come first, in no particular order; the
\* records of the tasks that completed later follow in completion order.
C18_RecordsInCompletionOrderAfterStart ==
    \A k, l \in 1..Len(results) :
        k < l =>
            /\ results[l].item \in preFinished => results[k].item \in preFinished
            /\ (results[k].item \notin preFinished
                    /\ results[l].item \notin preFinished) =>
                   Pos(trDoneOrder, results[k].item)
                       < Pos(trDoneOrder, results[l].item)
C18_Witness ==
    /\ pc = "returned"
    /\ Len(results) = 2
    /\ results[1].item = 2
    /\ results[2].item = 1
    /\ preFinished = {}
    /\ Pos(trDoneOrder, 2) < Pos(trDoneOrder, 1)

\* C19: every call of transcribe_audio whose engine call has ended passes
\* through the removal of its artifact, on the success, the empty and the
\* error path alike; the removal deletes nothing but that artifact, and
\* whether it succeeds or fails, the call returns the outcome it had computed,
\* unchanged, and does not raise.
C19_CleanupKeepsOutcome ==
    [][pc' # "initialize" =>
       \A i \in Idx :
          /\ (tr[i] = "cleanup" /\ tr'[i] # "cleanup" /\ broken' = broken) =>
                 /\ tr'[i] = "done"
                 /\ ret'[i] = ret[i]
                 /\ ret[i].status \in {"success", "empty", "error"}
                 /\ files' \subseteq files
                 /\ files \ files' \subseteq {AudioFile(i)}
          /\ (tr'[i] = "done" /\ tr[i] # "done") => tr[i] = "cleanup"
          /\ tr[i] = "done" => (tr'[i] = "done" /\ ret'[i] = ret[i])]_vars
C19_Witness ==
    /\ N = 1
    /\ tr[1] = "done"
    /\ ret[1].status = "success"
    /\ AudioFile(1) \in files

\* C20: download_and_extract_audio never raises: the future of a fetch task
\* ends with a path or with None, and with a path only when the tool exited
\* normally and the file is there.
C20_FetchNeverRaises ==
    /\ \A i \in Idx : fetch[i] # "raised"
    /\ \A i \in Idx : fetch[i] = "ok" => video_urls[i].isStr
    /\ Len(fetchDoneOrder) = Cardinality({i \in Idx : fetch[i] \in {"ok", "none"}})

\* the failure of item i that the current call puts into self.errors
FailedInCall(i) ==
    \/ fetch[i] \in {"none", "raised"}
    \/ fetch[i] = "ok" /\ tr[i] = "none"
    \/ Collected(i) /\ ret[i].status = "error"

\* C21: in every call of a sequence of process_videos calls on one instance,
\* self.results holds exactly one record per transcription outcome collected
\* in this call, self.errors holds at most one entry per item of this call
\* and only for items that failed in this call, and the returned counts are
\* the counts of these: nothing an earlier call recorded, whether it returned
\* or raised, is visible.
C21_CallsDoNotContaminate ==
    /\ pc \in {"initialize", "submit"} => results = <<>> /\ errors = <<>>
    /\ pc \notin {"idle", "main_rejected"} =>
        /\ \A k \in 1..Len(results) :
               /\ results[k].item \in Idx
               /\ Collected(results[k].item)
               /\ results[k] = ret[results[k].item]
        /\ Len(results) = Cardinality({i \in Idx : Collected(i)})
        /\ \A k \in 1..Len(errors) :
               /\ errors[k].item \in Idx
               /\ errors[k].url = video_urls[errors[k].item]
               /\ FailedInCall(errors[k].item)
        /\ Len(errors) = Cardinality({i \in Idx : InErrors(i)})
    /\ pc = "returned" =>
        /\ Summary.success_count = Cardinality({i \in Idx : Collected(i)})
        /\ Summary.error_count = Cardinality({i \in Idx : InErrors(i)})
        /\ Summary.success_count <= N
        /\ Summary.error_count <= N
C21_Witness ==
    /\ calls = 2
    /\ pc = "returned"
    /\ left_over.outcome = "raised"
    /\ left_over.results >= 1
    /\ left_over.errors >= 1
    /\ N = 1
    /\ Len(results) = 1
    /\ results[1].status = "success"
    /\ errors = <<>>

\* C22: a transcription task exists for an item only when that item's own
\* fetch task has completed and returned an artifact and the download loop has
\* taken its future; every submission is of a different item, and every
\* transcription task comes from exactly one submission.
C22_SubmitAfterOwnFetch ==
    pc \notin {"idle", "main_rejected"} =>
        /\ \A i \in Idx : tr[i] # "none" =>
               /\ fetch[i] = "ok"
               /\ Pos(fetchDoneOrder, i) > 0
               /\ variant = "pipeline" => DownloadHandled(i)
               /\ (variant = "gui" /\ pc = "dl_loop") => i \in yielded
        /\ SeqToSet(submitOrder) = TranscribeFutures
        /\ Len(submitOrder) = Cardinality(SeqToSet(submitOrder))
        /\ Len(submitOrder) <= Cardinality({i \in Idx : fetch[i] # "unsubmitted"})
C22_Witness ==
    /\ N = 2
    /\ fetchDoneOrder = <<2, 1>>
    /\ submitOrder = <<1, 2>>
    /\ tr[1] = "queued"
    /\ tr[2] = "queued"

\* no fetch call and no inference call is waiting, under way or being ended
NoCallPending ==
    \A i \in Idx : /\ fetch[i] \in {"unsubmitted"} \cup FetchFinished
                   /\ tr[i] \in {"none"} \cup TrFinished

\* C23: under fair scheduling, with external calls that return or fail in
\* finite time, every call of process_videos that has been entered eventually
\* returns or raises, for every pair of pool sizes and every number of items;
\* and process_videos has returned or raised only when no fetch call and no
\* inference call is pending, so a call that never ends keeps it from returning.
C23_TerminatesUnlessStalled ==
    /\ (pc = "initialize") ~> (pc \in {"returned", "raised"})
    /\ [](pc \in {"returned", "raised"} => NoCallPending)
C23_Witness ==
    /\ pc = "returned"
    /\ N = MaxItems
    /\ max_concurrent_downloads = 1
    /\ max_concurrent_transcriptions = 1
    /\ \A i \in Idx : fetch[i] = "ok" /\ tr[i] = "done"

====
